---- MODULE Spec2Model ----
(***************************************************************************)
(* LibraryClient (src/library.py): fetch -> _request -> _sanitize, the two *)
(* masks _mask_phone / _mask_id_number, format_display and close.          *)
(*                                                                         *)
(* A Python str is a sequence of one-character strings.  A character that  *)
(* is not ASCII is named by its code point ("U59D3").  A Python dict is a  *)
(* sequence of <<key, value>> pairs in insertion order, keys distinct.     *)
(***************************************************************************)
EXTENDS Integers, Sequences, FiniteSets, TLC

VARIABLES
    desensitize,  \* self.desensitize, set by __init__
    closed,       \* self.session.closed
    db,           \* what the remote service holds under "data" for the target
    nfail,        \* fetch calls so far that returned None (saturates at MaxFails)
    op,           \* the last public call: "init", "fetch", "format", "close"
    net,          \* fetch: what session.get / resp.json produced for that call
    ret,          \* fetch: how the call ended
    fmtIn,        \* format_display: its argument
    fmtSrc,       \* format_display: where the argument came from
    lines,        \* format_display: the list it returned
    value,        \* the string handed to a mask
    stage,        \* which mask calls have been made on value
    out1,         \* mask(value)
    out2          \* mask(mask(value))

vars == <<desensitize, closed, db, nfail, op, net, ret, fmtIn, fmtSrc, lines,
          value, stage, out1, out2>>

clientVars == <<desensitize, closed, db, nfail, op, net, ret, fmtIn, fmtSrc, lines>>
maskVars == <<value, stage, out1, out2>>

---------------------------------------------------------------------------
(* Bounds of the model *)

MaxRun == 19
MaxKeys == 2
MaxFails == 2

---------------------------------------------------------------------------
(* Characters and the regex character classes *)

DigitChars == {"0", "1", "2", "3", "4", "5", "6", "7", "8", "9"}

LetterChars ==
    {"a", "b", "c", "d", "e", "f", "g", "h", "i", "j", "k", "l", "m",
     "n", "o", "p", "q", "r", "s", "t", "u", "v", "w", "x", "y", "z",
     "A", "B", "C", "D", "E", "F", "G", "H", "I", "J", "K", "L", "M",
     "N", "O", "P", "Q", "R", "S", "T", "U", "V", "W", "X", "Y", "Z"}

\* \d
IsDigit(c) == c \in DigitChars

\* [0-9A-Za-z]
IsAlnum(c) == c \in DigitChars \cup LetterChars

\* \w, on the ASCII characters the model uses
IsWord(c) == IsAlnum(c) \/ c = "_"

\* '*' * n
Stars(n) == [i \in 1..n |-> "*"]

SetMin(S) == CHOOSE m \in S : \A k \in S : m <= k

\* s[i : i + n] is n digits
DigitsAt(s, i, n) ==
    /\ i >= 1
    /\ i + n - 1 <= Len(s)
    /\ \A j \in i..(i + n - 1) : IsDigit(s[j])

\* s[i : i + n] is n word characters
WordsAt(s, i, n) ==
    /\ i >= 1
    /\ i + n - 1 <= Len(s)
    /\ \A j \in i..(i + n - 1) : IsWord(s[j])

---------------------------------------------------------------------------
(* _mask_phone *)

PhoneRun == 11
PhoneHead == 3
PhoneMid == 4
PhoneTail == 4

\* search_phone, were it to take only a run of digits that is exactly 11 long
search_phone_whole_run(number) ==
    LET hits == {i \in 1..Len(number) :
                    /\ DigitsAt(number, i, PhoneRun)
                    /\ (i = 1 \/ ~IsDigit(number[i - 1]))
                    /\ (i + PhoneRun > Len(number) \/ ~IsDigit(number[i + PhoneRun]))}
    IN  IF hits = {} THEN 0 ELSE SetMin(hits)

\* re.search(r"(\d{11})", number): m.start(1) as a 1-based index, 0 for no match
search_phone(number) ==
    LET hits == {i \in 1..Len(number) : DigitsAt(number, i, PhoneRun)}
    IN  IF hits = {} THEN 0 ELSE SetMin(hits)

\* sub_digits, were it re.sub(r"\d", "*", number, count=1)
sub_digits_first(number) ==
    LET ds == {i \in 1..Len(number) : IsDigit(number[i])}
    IN  [i \in 1..Len(number) |->
            IF ds # {} /\ i = SetMin(ds) THEN "*" ELSE number[i]]

\* re.sub(r"\d", "*", number)
sub_digits(number) ==
    [i \in 1..Len(number) |-> IF IsDigit(number[i]) THEN "*" ELSE number[i]]

\* re.sub(r"(\d{3})\d{4}(\d{4})", r"\1****\2", digits), scanning from index i
RECURSIVE sub_phone(_, _)
sub_phone(digits, i) ==
    IF i > Len(digits) THEN <<>>
    ELSE IF DigitsAt(digits, i, PhoneHead + PhoneMid + PhoneTail)
         THEN SubSeq(digits, i, i + PhoneHead - 1)
              \o <<"*", "*", "*", "*">>
              \o SubSeq(digits, i + PhoneHead + PhoneMid,
                        i + PhoneHead + PhoneMid + PhoneTail - 1)
              \o sub_phone(digits, i + PhoneHead + PhoneMid + PhoneTail)
         ELSE <<digits[i]>> \o sub_phone(digits, i + 1)

_mask_phone(number) ==
    LET st == search_phone(number)
    IN  IF st = 0
        THEN sub_digits(number)
        ELSE LET digits == SubSeq(number, st, st + PhoneRun - 1)
                 masked == sub_phone(digits, 1)
                 prefix == SubSeq(number, 1, st - 1)
                 suffix == SubSeq(number, st + PhoneRun, Len(number))
             IN  prefix \o masked \o suffix

---------------------------------------------------------------------------
(* _mask_id_number *)

Id18Digits == 17
Id15Digits == 15
IdHead == 6
Id18Mid == 8
Id15Mid == 5
IdTail == 4
OtherHead == 3
OtherTail == 2
OtherCut == 5

\* \d{17}[0-9Xx] at index i
Match18(s, i) ==
    /\ DigitsAt(s, i, Id18Digits)
    /\ i + Id18Digits <= Len(s)
    /\ (IsDigit(s[i + Id18Digits]) \/ s[i + Id18Digits] \in {"X", "x"})

\* \d{15} at index i
Match15(s, i) == DigitsAt(s, i, Id15Digits)

\* re.search(r"(\d{17}[0-9Xx]|\d{15})", id_num): [st |-> m.start(1) as a 1-based
\* index, 0 for no match, len |-> len(m.group(1))]; the leftmost index wins and,
\* at that index, the first alternative that matches
search_id(id_num) ==
    LET hits == {i \in 1..Len(id_num) : Match18(id_num, i) \/ Match15(id_num, i)}
    IN  IF hits = {} THEN [st |-> 0, len |-> 0]
        ELSE LET i == SetMin(hits)
             IN  [st |-> i,
                  len |-> IF Match18(id_num, i) THEN Id18Digits + 1 ELSE Id15Digits]

\* re.sub(r"[0-9A-Za-z]", "*", id_num)
sub_alnum(id_num) ==
    [i \in 1..Len(id_num) |-> IF IsAlnum(id_num[i]) THEN "*" ELSE id_num[i]]

\* \d{6}\d{mid}\w{4} at index i
IdPatternAt(s, i, mid) ==
    /\ DigitsAt(s, i, IdHead + mid)
    /\ WordsAt(s, i + IdHead + mid, IdTail)

\* re.fullmatch(r"\d{6}\d{mid}\w{4}", core)
fullmatch_id(core, mid) ==
    /\ Len(core) = IdHead + mid + IdTail
    /\ IdPatternAt(core, 1, mid)

\* re.sub(r"(\d{6})\d{mid}(\w{4})", r"\1" + stars + r"\2", core), scanning from i
RECURSIVE sub_id(_, _, _, _)
sub_id(core, i, mid, stars) ==
    IF i > Len(core) THEN <<>>
    ELSE IF IdPatternAt(core, i, mid)
         THEN SubSeq(core, i, i + IdHead - 1)
              \o stars
              \o SubSeq(core, i + IdHead + mid, i + IdHead + mid + IdTail - 1)
              \o sub_id(core, i + IdHead + mid + IdTail, mid, stars)
         ELSE <<core[i]>> \o sub_id(core, i + 1, mid, stars)

\* the branch on core, lines 159-168
mask_core(core) ==
    IF fullmatch_id(core, Id18Mid)
    THEN sub_id(core, 1, Id18Mid, <<"*", "*", "*", "*", "*", "*", "*", "*">>)
    ELSE IF fullmatch_id(core, Id15Mid)
    THEN sub_id(core, 1, Id15Mid, <<"*", "*", "*", "*", "*", "*">>)
    ELSE IF Len(core) > OtherCut
    THEN SubSeq(core, 1, OtherHead)
         \o Stars(Len(core) - OtherCut)
         \o SubSeq(core, Len(core) - OtherTail + 1, Len(core))
    ELSE Stars(Len(core))

_mask_id_number(id_num) ==
    LET m == search_id(id_num)
    IN  IF m.st = 0
        THEN sub_alnum(id_num)
        ELSE LET core == SubSeq(id_num, m.st, m.st + m.len - 1)
                 masked == mask_core(core)
                 prefix == SubSeq(id_num, 1, m.st - 1)
                 suffix == SubSeq(id_num, m.st + m.len, Len(id_num))
             IN  prefix \o masked \o suffix

---------------------------------------------------------------------------
(* The strings handed to the masks *)

DigitSeq == <<"0", "1", "2", "3", "4", "5", "6", "7", "8", "9">>

\* a run of n digits that differ from place to place
Run(n, o) == [i \in 1..n |-> DigitSeq[((3 * i + o) % 10) + 1]]

Texts == {<<>>, <<"a">>, <<"-">>, <<"X">>, <<"*">>}

SecondRuns == {0, PhoneRun, Id15Digits, Id18Digits + 1}

\* the values the docstrings and the specification name
Examples ==
    {<<"1", "3", "8", "1", "2", "3", "4", "5", "6", "7", "8">>,
     <<"1", "3", "8", "*", "*", "*", "*", "5", "6", "7", "8">>,
     <<"t", "e", "l", "1", "3", "8", "1", "2", "3", "4", "5", "6", "7", "8",
       "e", "x", "t", "8">>,
     <<"a", "b", "c">>,
     <<"1", "1", "0", "1", "0", "1", "1", "9", "9", "0", "0", "3", "0", "7",
       "1", "2", "3", "4">>,
     <<"1", "1", "0", "1", "0", "1", "9", "0", "0", "3", "0", "7", "1", "2", "3">>,
     <<"1", "1", "0", "1", "0", "1", "1", "9", "9", "0", "0", "3", "0", "7",
       "1", "2", "3", "x">>,
     <<"A", "1", "B", "2", "C", "3", "D", "4", "E", "5">>}

Values ==
    Examples \cup
    {p \o Run(n, 1) \o q \o Run(m, 4) :
        p \in Texts, n \in 0..MaxRun, q \in Texts, m \in SecondRuns}

---------------------------------------------------------------------------
(* The client's state when no call has been made *)

NoNet == [exc |-> FALSE, status |-> 0, body |-> "none"]
NoRet == [kind |-> "none", rec |-> <<>>]

\* Python's None, where a data value is expected
None == [kind |-> "none", items |-> <<>>]

ClientIdle ==
    /\ desensitize = FALSE
    /\ closed = FALSE
    /\ db = None
    /\ nfail = 0
    /\ op = "init"
    /\ net = NoNet
    /\ ret = NoRet
    /\ fmtIn = <<>>
    /\ fmtSrc = "none"
    /\ lines = <<>>

---------------------------------------------------------------------------
(* The masks as calls: mask(value), then mask of that output *)

InitMask ==
    /\ ClientIdle
    /\ value \in Values
    /\ stage = "input"
    /\ out1 = <<>>
    /\ out2 = <<>>

MaskPhone ==
    /\ stage = "input"
    /\ out1' = _mask_phone(value)
    /\ stage' = "phone"
    /\ UNCHANGED <<value, out2>>
    /\ UNCHANGED clientVars

RemaskPhone ==
    /\ stage = "phone"
    /\ out2' = _mask_phone(out1)
    /\ stage' = "phone2"
    /\ UNCHANGED <<value, out1>>
    /\ UNCHANGED clientVars

MaskIdNumber ==
    /\ stage = "input"
    /\ out1' = _mask_id_number(value)
    /\ stage' = "id"
    /\ UNCHANGED <<value, out2>>
    /\ UNCHANGED clientVars

RemaskIdNumber ==
    /\ stage = "id"
    /\ out2' = _mask_id_number(out1)
    /\ stage' = "id2"
    /\ UNCHANGED <<value, out1>>
    /\ UNCHANGED clientVars

NextMask == MaskPhone \/ RemaskPhone \/ MaskIdNumber \/ RemaskIdNumber

SpecMask == InitMask /\ [][NextMask]_vars

---------------------------------------------------------------------------
(* Python values and dicts *)

\* a str, and a value that is no str (an int, held as its decimal digits)
PyStr(s) == [type |-> "str", v |-> s]
PyInt(s) == [type |-> "int", v |-> s]

\* str(x)
str(x) == x.v

HasKey(d, k) == \E i \in 1..Len(d) : d[i][1] = k

\* d.get(k): None for a key d does not hold
DictGet(d, k) ==
    IF HasKey(d, k)
    THEN [none |-> FALSE, v |-> d[CHOOSE i \in 1..Len(d) : d[i][1] = k][2]]
    ELSE [none |-> TRUE, v |-> <<>>]

\* d[k] = v
DictSet(d, k, v) ==
    IF HasKey(d, k)
    THEN [i \in 1..Len(d) |-> IF d[i][1] = k THEN <<k, v>> ELSE d[i]]
    ELSE Append(d, <<k, v>>)

\* not_values, were it "values is None"
not_values_none_only(x) == x.none

\* "not values" for what d.get(k) gave: None or an empty list
not_values(x) == x.none \/ Len(x.v) = 0

---------------------------------------------------------------------------
(* FIELD_LABELS, DEFAULT_FIELD_ORDER *)

FIELD_LABELS ==
    <<  <<"names", <<"U59D3", "U540D">> >>,
        <<"nicknames", <<"U6635", "U79F0">> >>,
        <<"phone_numbers", <<"U53F7", "U7801">> >>,
        <<"id_numbers", <<"U8EAB", "U4EFD", "U8BC1">> >>,
        <<"wb_numbers", <<"U5FAE", "U535A">> >>,
        <<"passwords", <<"U5BC6", "U7801">> >>,
        <<"emails", <<"U90AE", "U7BB1">> >>,
        <<"addresses", <<"U5730", "U5740">> >>  >>

\* the keys of the data the service returns, in its order (_request's docstring)
ServiceKeys ==
    <<"names", "nicknames", "phone_numbers", "id_numbers", "qq_numbers",
      "wb_numbers", "passwords", "emails", "addresses">>

\* DEFAULT_FIELD_ORDER, were it every key the service returns
DEFAULT_FIELD_ORDER_service_keys == ServiceKeys

\* tuple(FIELD_LABELS.keys())
DEFAULT_FIELD_ORDER == [i \in 1..Len(FIELD_LABELS) |-> FIELD_LABELS[i][1]]

---------------------------------------------------------------------------
(* _sanitize *)

\* sanitize_values, were the masks applied whatever self.desensitize is
sanitize_values_always(key, values) ==
    IF key \in {"phone_numbers", "id_numbers"}
    THEN IF \E i \in 1..Len(values) : values[i].type # "str"
         THEN [raised |-> TRUE, v |-> <<>>]
         ELSE [raised |-> FALSE,
               v |-> [i \in 1..Len(values) |->
                        IF key = "phone_numbers"
                        THEN PyStr(_mask_phone(values[i].v))
                        ELSE PyStr(_mask_id_number(values[i].v))]]
    ELSE [raised |-> FALSE, v |-> values]

\* lines 116-121: what sanitized[key] is set to; re.search raises TypeError on
\* a value that is no str
sanitize_values(key, values) ==
    IF key = "phone_numbers" /\ desensitize
    THEN IF \E i \in 1..Len(values) : values[i].type # "str"
         THEN [raised |-> TRUE, v |-> <<>>]
         ELSE [raised |-> FALSE,
               v |-> [i \in 1..Len(values) |-> PyStr(_mask_phone(values[i].v))]]
    ELSE IF key = "id_numbers" /\ desensitize
    THEN IF \E i \in 1..Len(values) : values[i].type # "str"
         THEN [raised |-> TRUE, v |-> <<>>]
         ELSE [raised |-> FALSE,
               v |-> [i \in 1..Len(values) |-> PyStr(_mask_id_number(values[i].v))]]
    ELSE [raised |-> FALSE, v |-> values]

\* the loop of _sanitize from the i-th key on
RECURSIVE sanitize_loop(_, _, _)
sanitize_loop(items, i, sanitized) ==
    IF i > Len(DEFAULT_FIELD_ORDER) THEN [raised |-> FALSE, rec |-> sanitized]
    ELSE LET key == DEFAULT_FIELD_ORDER[i]
             values == DictGet(items, key)
         IN  IF not_values(values) THEN sanitize_loop(items, i + 1, sanitized)
             ELSE LET new == sanitize_values(key, values.v)
                  IN  IF new.raised THEN [raised |-> TRUE, rec |-> <<>>]
                      ELSE sanitize_loop(items, i + 1, DictSet(sanitized, key, new.v))

\* data.get raises AttributeError when data is no dict
_sanitize(data) ==
    IF data.kind # "mapping" THEN [raised |-> TRUE, rec |-> <<>>]
    ELSE sanitize_loop(data.items, 1, <<>>)

---------------------------------------------------------------------------
(* _request, fetch *)

\* bool(data): None and {} are falsy; a dict with keys, and a value that is no
\* dict such as [1] or "x" (kind "nonmapping"), are truthy
Truthy(data) ==
    \/ data.kind = "nonmapping"
    \/ data.kind = "mapping" /\ Len(data.items) > 0

OK == 200

\* _request, were the status not looked at
_request_any_status(n) ==
    IF closed \/ n.exc THEN None
    ELSE IF n.body # "object" THEN None
    ELSE IF ~Truthy(db) THEN None
    ELSE db

\* n is what the network did: session.get raised (always so on a closed
\* session), or a response came with a status and a body that is not JSON
\* ("unparseable"), JSON but no object ("nonobject": .get raises), or an object
\* whose "data" is db
_request(n) ==
    IF closed \/ n.exc THEN None
    ELSE IF n.status # OK THEN None
    ELSE IF n.body # "object" THEN None
    ELSE IF ~Truthy(db) THEN None
    ELSE db

fetch(n) ==
    LET raw == _request(n)
    IN  IF ~Truthy(raw) THEN [kind |-> "absent", rec |-> <<>>]
        ELSE LET s == _sanitize(raw)
             IN  IF s.raised THEN [kind |-> "raised", rec |-> <<>>]
                 ELSE [kind |-> "record", rec |-> s.rec]

---------------------------------------------------------------------------
(* format_display *)

\* sep.join(strs)
RECURSIVE join(_, _)
join(sep, strs) ==
    IF Len(strs) = 0 THEN <<>>
    ELSE IF Len(strs) = 1 THEN strs[1]
    ELSE strs[1] \o sep \o join(sep, Tail(strs))

\* the loop of format_display over keys, from the i-th key on
RECURSIVE format_loop(_, _, _)
format_loop(data, keys, i) ==
    IF i > Len(keys) THEN <<>>
    ELSE LET key == keys[i]
             label == DictGet(FIELD_LABELS, key)
             values == DictGet(data, key)
         IN  IF not_values(label) THEN format_loop(data, keys, i + 1)
             ELSE IF not_values(values) THEN format_loop(data, keys, i + 1)
             ELSE << label.v \o <<"UFF1A">>
                     \o join(<<" ", "|", " ">>,
                             [j \in 1..Len(values.v) |-> str(values.v[j])]) >>
                  \o format_loop(data, keys, i + 1)

\* format_display, were it to walk the keys of data
format_display_own_order(data) ==
    format_loop(data, [i \in 1..Len(data) |-> data[i][1]], 1)

format_display(data) == format_loop(data, DEFAULT_FIELD_ORDER, 1)

---------------------------------------------------------------------------
(* What the service may hold, and what the network may do *)

StrA == PyStr(<<"z", "s">>)
StrB == PyStr(<<"l", " ", "4">>)

Phone1 == PyStr(<<"1", "3", "8", "1", "2", "3", "4", "5", "6", "7", "8">>)
Phone2 == PyStr(<<"t", "-", "1", "3", "8", "1", "2", "3", "4", "5", "6", "7", "8", "9">>)
Id18 ==
    PyStr(<<"1", "1", "0", "1", "0", "1", "1", "9", "9", "0", "0", "3", "0", "7",
            "1", "2", "3", "X">>)
Id10 == PyStr(<<"A", "1", "B", "2", "C", "3", "D", "4", "E", "5">>)
Int1 == PyInt(<<"1", "3", "8">>)

ValueLists(key) ==
    IF key = "phone_numbers"
    THEN {<<>>, <<Phone1>>, <<Phone1, Phone2>>, <<Int1>>}
    ELSE IF key = "id_numbers"
    THEN {<<>>, <<Id18>>, <<Id10, Id18>>, <<Int1>>}
    ELSE {<<>>, <<StrA>>, <<StrA, StrB>>}

AllLists == UNION {ValueLists(ServiceKeys[i]) : i \in 1..Len(ServiceKeys)}

\* up to MaxKeys keys, in the service's order or against it
KeySeqs ==
    {ks \in UNION {[1..n -> 1..Len(ServiceKeys)] : n \in 1..MaxKeys} :
        \/ \A i \in 1..(Len(ks) - 1) : ks[i] < ks[i + 1]
        \/ \A i \in 1..(Len(ks) - 1) : ks[i] > ks[i + 1]}

RawRecords ==
    UNION {
        {[i \in 1..Len(ks) |-> <<ServiceKeys[ks[i]], vl[i]>>] :
            vl \in {f \in [1..Len(ks) -> AllLists] :
                        \A i \in 1..Len(ks) : f[i] \in ValueLists(ServiceKeys[ks[i]])}} :
        ks \in KeySeqs}

DataValues ==
    {None, [kind |-> "mapping", items |-> <<>>], [kind |-> "nonmapping", items |-> <<>>]}
    \cup {[kind |-> "mapping", items |-> r] : r \in RawRecords}

Statuses == {OK, 404, 500}

NetOutcomes ==
    {[exc |-> TRUE, status |-> 0, body |-> "none"]}
    \cup {[exc |-> FALSE, status |-> st, body |-> b] :
            st \in Statuses, b \in {"unparseable", "nonobject", "object"}}

---------------------------------------------------------------------------
(* The client *)

MaskIdle ==
    /\ value = <<>>
    /\ stage = "idle"
    /\ out1 = <<>>
    /\ out2 = <<>>

\* __init__
Init ==
    /\ desensitize \in BOOLEAN
    /\ closed = FALSE
    /\ db \in DataValues
    /\ nfail = 0
    /\ op = "init"
    /\ net = NoNet
    /\ ret = NoRet
    /\ fmtIn = <<>>
    /\ fmtSrc = "none"
    /\ lines = <<>>
    /\ MaskIdle

Fetch ==
    \E n \in NetOutcomes :
        /\ closed => n.exc
        /\ op' = "fetch"
        /\ net' = n
        /\ ret' = fetch(n)
        /\ nfail' = IF fetch(n).kind = "absent" /\ nfail < MaxFails
                    THEN nfail + 1 ELSE nfail
        /\ fmtIn' = <<>>
        /\ fmtSrc' = "none"
        /\ lines' = <<>>
        /\ UNCHANGED <<desensitize, closed, db>>
        /\ UNCHANGED maskVars

\* format_display on what fetch just returned
FormatFetched ==
    /\ op = "fetch"
    /\ ret.kind = "record"
    /\ op' = "format"
    /\ fmtIn' = ret.rec
    /\ fmtSrc' = "fetched"
    /\ lines' = format_display(ret.rec)
    /\ net' = NoNet
    /\ ret' = NoRet
    /\ UNCHANGED <<desensitize, closed, db, nfail>>
    /\ UNCHANGED maskVars

\* format_display on a dict as the service holds it
FormatRaw ==
    /\ db.kind = "mapping"
    /\ op' = "format"
    /\ fmtIn' = db.items
    /\ fmtSrc' = "raw"
    /\ lines' = format_display(db.items)
    /\ net' = NoNet
    /\ ret' = NoRet
    /\ UNCHANGED <<desensitize, closed, db, nfail>>
    /\ UNCHANGED maskVars

Close ==
    /\ closed' = TRUE
    /\ op' = "close"
    /\ net' = NoNet
    /\ ret' = NoRet
    /\ fmtIn' = <<>>
    /\ fmtSrc' = "none"
    /\ lines' = <<>>
    /\ UNCHANGED <<desensitize, db, nfail>>
    /\ UNCHANGED maskVars

Next == Fetch \/ FormatFetched \/ FormatRaw \/ Close

Spec == Init /\ [][Next]_vars

---------------------------------------------------------------------------
(* Claims about the masks, checked under SpecMask *)

\* index i starts a maximal run of digits in s
RunStart(s, i) ==
    /\ i \in 1..Len(s)
    /\ IsDigit(s[i])
    /\ (i = 1 \/ ~IsDigit(s[i - 1]))

\* the maximal run of digits that starts at i is n long
RunIs(s, i, n) ==
    /\ RunStart(s, i)
    /\ DigitsAt(s, i, n)
    /\ (i + n > Len(s) \/ ~IsDigit(s[i + n]))

\* s with the 11 characters from i on written as their first 3, ****, their last 4
PhoneMasked(s, i) ==
    [j \in 1..Len(s) |-> IF j \in (i + 3)..(i + 6) THEN "*" ELSE s[j]]

\* s with every digit written as *
DigitsStarred(s) == [j \in 1..Len(s) |-> IF s[j] \in DigitChars THEN "*" ELSE s[j]]

\* C5 as stated: the phone mask acts on the first maximal run of exactly 11
\* digits; a value with no run that is exactly 11 long (its runs are shorter, or
\* 12 and more long) has every digit starred.
C5_ExactRun ==
    stage = "phone" =>
        LET starts == {i \in 1..Len(value) : RunIs(value, i, 11)}
        IN  out1 = IF starts = {} THEN DigitsStarred(value)
                   ELSE PhoneMasked(value, SetMin(starts))

\* C5 amended: the phone mask acts on the first 11 digits of the first run of 11
\* digits or more: they become their first 3, ****, their last 4, and the text
\* around them, further digits of the run included, is kept; a value whose runs
\* are all shorter than 11 has every digit starred and nothing else changed.
C5_FirstElevenDigits ==
    stage = "phone" =>
        LET starts == {i \in 1..Len(value) : RunStart(value, i) /\ DigitsAt(value, i, 11)}
        IN  out1 = IF starts = {} THEN DigitsStarred(value)
                   ELSE PhoneMasked(value, SetMin(starts))

\* a run of 12 digits or more, after some text, has been masked
C5_Witness ==
    /\ stage = "phone"
    /\ \E i \in 2..Len(value) : RunStart(value, i) /\ DigitsAt(value, i, 12)
    /\ out1 # DigitsStarred(value)

\* C6: when the ID mask matches the 15-digit form, the run becomes its first 6
\* digits, 6 stars and its last 3 digits (15 characters), the text around it kept.
C6_FifteenKeepsLastThree ==
    (stage = "id" /\ search_id(value).len = 15) =>
        LET i == search_id(value).st
        IN  out1 = [j \in 1..Len(value) |->
                        IF j \in (i + 6)..(i + 11) THEN "*" ELSE value[j]]

\* C9: a 10-character alphanumeric id value (too short to hold a 15- or
\* 18-character run) keeps its first 3 and last 2 characters, the 5 between starred.
C9_TenCharsKeepEnds ==
    (stage = "id" /\ Len(value) = 10 /\ \A j \in 1..10 : IsAlnum(value[j])) =>
        out1 = [j \in 1..10 |-> IF j \in 4..8 THEN "*" ELSE value[j]]

\* the value holds 11 digits in a row
HasPhoneRun(s) == \E i \in 1..Len(s) : DigitsAt(s, i, 11)

\* the value holds 15 digits in a row (17 digits and a digit, X or x hold them too)
HasIdRun(s) == \E i \in 1..Len(s) : DigitsAt(s, i, 15)

\* C7 as stated: masking is idempotent, mask(mask(v)) = mask(v), for both masks.
C7_Idempotent == stage \in {"phone2", "id2"} => out2 = out1

\* C7 amended: mask(mask(v)) = mask(v) exactly for the values v with no run to
\* mask (phone: no 11 digits in a row; id: no 15 digits in a row); a value with
\* such a run keeps digits in its masked form, and masking that form again
\* changes it.
C7_IdempotentWithoutRun ==
    /\ stage = "phone2" => (out2 = out1 <=> ~HasPhoneRun(value))
    /\ stage = "id2" => (out2 = out1 <=> ~HasIdRun(value))

\* a value with digits but no run of 11 has been masked twice
C7_Witness ==
    /\ stage = "phone2"
    /\ ~HasPhoneRun(value)
    /\ Cardinality({j \in 1..Len(value) : IsDigit(value[j])}) >= 2
    /\ out2 = out1

---------------------------------------------------------------------------
(* Claims about the client, checked under Spec *)

\* the canonical key order, as the specification lists it
CanonicalKeys ==
    <<"names", "nicknames", "phone_numbers", "id_numbers", "wb_numbers",
      "passwords", "emails", "addresses">>

IsCanonical(k) == \E i \in 1..Len(CanonicalKeys) : CanonicalKeys[i] = k

KeysOf(d) == {d[i][1] : i \in 1..Len(d)}

ListOf(d, k) == d[CHOOSE i \in 1..Len(d) : d[i][1] = k][2]

\* the keys of d whose value list is present and not empty
FilledKeys(d) == {k \in KeysOf(d) : Len(ListOf(d, k)) > 0}

\* the call got status 200 and a JSON object
GotObject == ~net.exc /\ net.status = 200 /\ net.body = "object"

\* every value of d is a str
StringsOnly(d) ==
    \A i \in 1..Len(d) : \A j \in 1..Len(d[i][2]) : d[i][2][j].type = "str"

\* C1: fetch never raises: whatever the request did and whatever the body held,
\* the call ends by returning absent or a mapping.
C1_FetchNeverRaises == op = "fetch" => ret.kind \in {"absent", "record"}

OnlyQQ(data) ==
    /\ data.kind = "mapping"
    /\ FilledKeys(data.items) = {"qq_numbers"}

\* C3 as stated: for a raw record whose only non-empty key is qq_numbers the
\* sanitizer returns a non-empty record that keeps qq_numbers and its values,
\* and format_display of that record is the empty list.
C3_QQRetained ==
    (op = "format" /\ fmtSrc = "fetched" /\ OnlyQQ(db)) =>
        /\ fmtIn # <<>>
        /\ HasKey(fmtIn, "qq_numbers")
        /\ ListOf(fmtIn, "qq_numbers") = ListOf(db.items, "qq_numbers")
        /\ lines = <<>>

\* C3 amended: for a raw record whose only non-empty key is qq_numbers the
\* sanitizer returns the empty record (qq_numbers is dropped with the empty
\* keys), and format_display of that record is the empty list.
C3_QQDropped ==
    (op = "format" /\ fmtSrc = "fetched" /\ OnlyQQ(db)) =>
        /\ fmtIn = <<>>
        /\ lines = <<>>

\* the record fetched for data that fills qq_numbers alone has been formatted
C3_Witness == op = "format" /\ fmtSrc = "fetched" /\ OnlyQQ(db)

\* the sanitizer ran on the raw record db.items with desensitize false
SanitizedUnmasked ==
    /\ op = "fetch"
    /\ ~closed
    /\ GotObject
    /\ db.kind = "mapping"
    /\ db.items # <<>>
    /\ ~desensitize

\* C4 as stated: with desensitize false the output has exactly the keys of the
\* raw record whose list is present and non-empty, each with the raw list.
C4_RawKeysKept ==
    SanitizedUnmasked =>
        /\ ret.kind = "record"
        /\ KeysOf(ret.rec) = FilledKeys(db.items)
        /\ \A k \in KeysOf(ret.rec) : ListOf(ret.rec, k) = ListOf(db.items, k)

\* C4 amended: with desensitize false the output has exactly the keys among the
\* eight canonical ones whose list in the raw record is present and non-empty
\* (qq_numbers is dropped), each with the raw list, phone_numbers and id_numbers
\* unmasked.
C4_CanonicalKeysKept ==
    SanitizedUnmasked =>
        /\ ret.kind = "record"
        /\ KeysOf(ret.rec) = {k \in FilledKeys(db.items) : IsCanonical(k)}
        /\ \A k \in KeysOf(ret.rec) : ListOf(ret.rec, k) = ListOf(db.items, k)

\* a record with a phone number and a filled qq_numbers went through unmasked
C4_Witness ==
    /\ SanitizedUnmasked
    /\ {"phone_numbers", "qq_numbers"} \subseteq FilledKeys(db.items)
    /\ HasKey(ret.rec, "phone_numbers")

\* values joined with " | ", built from the last value back
RECURSIVE Joined(_)
Joined(vs) ==
    IF Len(vs) = 1 THEN vs[1].v
    ELSE Joined(SubSeq(vs, 1, Len(vs) - 1)) \o <<" ", "|", " ">> \o vs[Len(vs)].v

LabelOf(k) == FIELD_LABELS[CHOOSE i \in 1..Len(FIELD_LABELS) : FIELD_LABELS[i][1] = k][2]

\* C8: format_display returns one line per key with a label and a non-empty
\* list, in canonical key order whatever the record's own order, each line the
\* label, a full-width colon and the values joined with " | "; unlabelled keys
\* and empty or absent lists give no line.
C8_LinesInCanonicalOrder ==
    op = "format" =>
        LET shown == SelectSeq(CanonicalKeys, LAMBDA k : k \in FilledKeys(fmtIn))
        IN  /\ Len(lines) = Len(shown)
            /\ \A i \in 1..Len(shown) :
                    lines[i] = LabelOf(shown[i]) \o <<"UFF1A">>
                               \o Joined(ListOf(fmtIn, shown[i]))

\* a record that lists two filled labelled keys against the canonical order,
\* one of them with two values, was formatted
C8_Witness ==
    /\ op = "format"
    /\ Len(lines) = 2
    /\ Len(fmtIn) = 2
    /\ fmtIn[1][1] = "addresses"
    /\ fmtIn[2][1] = "names"
    /\ Len(fmtIn[2][2]) = 2

\* C10 as stated: a record returned by fetch is never the empty mapping; data
\* with no non-empty recognized field yields absent.
C10_NeverEmptyRecord == (op = "fetch" /\ ret.kind = "record") => ret.rec # <<>>

\* C10 amended: a record returned by fetch holds only canonical keys, each with
\* a non-empty list, but the record itself may be empty: a 200 response whose
\* data mapping is non-empty and has no non-empty canonical field yields the
\* empty mapping, not absent.
C10_NoEmptyListInRecord ==
    /\ (op = "fetch" /\ ret.kind = "record") =>
            \A i \in 1..Len(ret.rec) :
                IsCanonical(ret.rec[i][1]) /\ Len(ret.rec[i][2]) > 0
    /\ (op = "fetch" /\ ~closed /\ GotObject /\ db.kind = "mapping" /\ db.items # <<>>
            /\ \A k \in FilledKeys(db.items) : ~IsCanonical(k))
        => ret = [kind |-> "record", rec |-> <<>>]

\* fetch returned the empty mapping for data whose lists are all empty
C10_Witness ==
    /\ op = "fetch"
    /\ ret = [kind |-> "record", rec |-> <<>>]
    /\ FilledKeys(db.items) = {}

====
